---- MODULE Spec2Model ----
(***************************************************************************)
(* fake-sql: the schema parser Table::init_via_sql and the statement       *)
(* generator Table::generate of src/src/models.rs (src/src/main.rs holds   *)
(* the same code plus the main loop).                                      *)
(*                                                                         *)
(* A Rust String is a sequence of one-character strings.  Option<T> is a   *)
(* record [some |-> FALSE] or [some |-> TRUE, val |-> v].  A panic (an     *)
(* index out of bounds) is the parse result [ok |-> FALSE].                *)
(***************************************************************************)
EXTENDS Integers, Sequences, FiniteSets, TLC

\* ------------------------------------------------------------ bounds
\* Most column definitions in one generated DDL input.
MaxCols == 2
\* The rng seeds tried: 0..MaxSeed.
MaxSeed == 2
\* The local clock reads from MaxEarly days before the base date ...
MaxEarly == 1
\* ... to MaxLate days after it.
MaxLate == 1

\* ------------------------------------------------------------ characters
Digits == <<"0", "1", "2", "3", "4", "5", "6", "7", "8", "9">>
LowerLetters == <<"a", "b", "c", "d", "e", "f", "g", "h", "i", "j", "k", "l", "m", "n", "o", "p", "q", "r", "s", "t", "u", "v", "w", "x", "y", "z">>
UpperLetters == <<"A", "B", "C", "D", "E", "F", "G", "H", "I", "J", "K", "L", "M", "N", "O", "P", "Q", "R", "S", "T", "U", "V", "W", "X", "Y", "Z">>

Range(s) == {s[i] : i \in 1..Len(s)}

IsDigit(c) == c \in Range(Digits)
\* [a-zA-Z]
IsLetter(c) == c \in Range(LowerLetters) \cup Range(UpperLetters)
\* char::is_whitespace / regex \s, over the model's alphabet
IsSpace(c) == c = " "

None == [some |-> FALSE]
Some(v) == [some |-> TRUE, val |-> v]

\* ------------------------------------------------------------ str helpers
\* char::to_lowercase
LowerChar(c) ==
    IF c \in Range(UpperLetters)
    THEN LowerLetters[CHOOSE i \in 1..Len(UpperLetters) : UpperLetters[i] = c]
    ELSE c

\* str::to_lowercase
ToLowercase(s) == [i \in 1..Len(s) |-> LowerChar(s[i])]

\* str::trim_start
TrimStart(s) ==
    LET idx == {i \in 1..Len(s) : ~IsSpace(s[i])}
    IN  IF idx = {} THEN << >>
        ELSE SubSeq(s, CHOOSE i \in idx : \A j \in idx : i <= j, Len(s))

\* str::trim_end
TrimEnd(s) ==
    LET idx == {i \in 1..Len(s) : ~IsSpace(s[i])}
    IN  IF idx = {} THEN << >>
        ELSE SubSeq(s, 1, CHOOSE i \in idx : \A j \in idx : i >= j)

\* str::trim
Trim(s) == TrimEnd(TrimStart(s))

\* str::starts_with
StartsWith(s, p) == Len(s) >= Len(p) /\ SubSeq(s, 1, Len(p)) = p

\* str::ends_with
EndsWith(s, p) == Len(s) >= Len(p) /\ SubSeq(s, Len(s) - Len(p) + 1, Len(s)) = p

\* str::trim_start_matches(pattern): strips the prefix as often as it repeats
RECURSIVE TrimStartMatches(_, _)
TrimStartMatches(s, p) ==
    IF Len(p) > 0 /\ StartsWith(s, p)
    THEN TrimStartMatches(SubSeq(s, Len(p) + 1, Len(s)), p)
    ELSE s

\* str::trim_end_matches(pattern)
RECURSIVE TrimEndMatches(_, _)
TrimEndMatches(s, p) ==
    IF Len(p) > 0 /\ EndsWith(s, p)
    THEN TrimEndMatches(SubSeq(s, 1, Len(s) - Len(p)), p)
    ELSE s

\* str::trim_matches(|c| c == '(' || c == ')')
TrimParens(s) ==
    LET idx == {i \in 1..Len(s) : s[i] # "(" /\ s[i] # ")"}
    IN  IF idx = {} THEN << >>
        ELSE SubSeq(s, CHOOSE i \in idx : \A j \in idx : i <= j,
                       CHOOSE i \in idx : \A j \in idx : i >= j)

\* first / last index of character c in s, 0 when absent
IndexOf(s, c) ==
    LET idx == {i \in 1..Len(s) : s[i] = c}
    IN  IF idx = {} THEN 0 ELSE CHOOSE i \in idx : \A j \in idx : i <= j

LastIndexOf(s, c) ==
    LET idx == {i \in 1..Len(s) : s[i] = c}
    IN  IF idx = {} THEN 0 ELSE CHOOSE i \in idx : \A j \in idx : i >= j

\* str::splitn(2, c).collect()
SplitN2(s, c) ==
    LET i == IndexOf(s, c)
    IN  IF i = 0 THEN <<s>>
        ELSE <<SubSeq(s, 1, i - 1), SubSeq(s, i + 1, Len(s))>>

\* str::rsplitn(2, c).collect(): the piece after the last c comes first
RSplitN2(s, c) ==
    LET i == LastIndexOf(s, c)
    IN  IF i = 0 THEN <<s>>
        ELSE <<SubSeq(s, i + 1, Len(s)), SubSeq(s, 1, i - 1)>>

\* str::split(c).collect()
RECURSIVE Split(_, _)
Split(s, c) ==
    LET i == IndexOf(s, c)
    IN  IF i = 0 THEN <<s>>
        ELSE <<SubSeq(s, 1, i - 1)>> \o Split(SubSeq(s, i + 1, Len(s)), c)

\* str::split_whitespace().collect()
RECURSIVE SplitWhitespace(_)
SplitWhitespace(s) ==
    LET t == TrimStart(s)
        i == IndexOf(t, " ")
    IN  IF t = << >> THEN << >>
        ELSE IF i = 0 THEN <<t>>
        ELSE <<SubSeq(t, 1, i - 1)>> \o SplitWhitespace(SubSeq(t, i + 1, Len(t)))

\* [T]::join(sep) / Vec<String>::join(sep)
RECURSIVE Join(_, _)
Join(parts, sep) ==
    IF Len(parts) = 0 THEN << >>
    ELSE IF Len(parts) = 1 THEN parts[1]
    ELSE parts[1] \o sep \o Join(Tail(parts), sep)

\* slice::contains
Contains(parts, x) == \E i \in 1..Len(parts) : parts[i] = x

\* the least element of a non-empty set of integers
Min(S) == CHOOSE x \in S : \A y \in S : x <= y

\* the end of the run of digits (letters) that starts at i: i - 1 when
\* s[i] is none
DigitsEnd(s, i) ==
    Min({j \in i..(Len(s) + 1) : j = Len(s) + 1 \/ ~IsDigit(s[j])}) - 1

LettersEnd(s, i) ==
    Min({j \in i..(Len(s) + 1) : j = Len(s) + 1 \/ ~IsLetter(s[j])}) - 1

\* the first index >= i that holds no whitespace (Len(s) + 1 when none)
SkipSpaces(s, i) ==
    IF i > Len(s) THEN i
    ELSE Min({j \in i..(Len(s) + 1) : j = Len(s) + 1 \/ ~IsSpace(s[j])})

\* Regex (\d+)\s*,\s*(\d+) matched at position i: the match
\* [d1e, d2s, d2e] (end of group 1, start and end of group 2), None otherwise
PrecisionMatchAt(s, i) ==
    LET d1e == DigitsEnd(s, i)
        k   == SkipSpaces(s, d1e + 1)
        m   == SkipSpaces(s, k + 1)
    IN  IF d1e >= i /\ k <= Len(s) /\ s[k] = "," /\ m <= Len(s) /\ IsDigit(s[m])
        THEN Some([d1e |-> d1e, d2s |-> m, d2e |-> DigitsEnd(s, m)])
        ELSE None

\* re.replace_all(s, "$1.$2") from position i on: leftmost matches, not
\* overlapping, the text between matches copied
RECURSIVE ReplacePrecisionFrom(_, _)
ReplacePrecisionFrom(s, i) ==
    LET starts == {j \in i..Len(s) : PrecisionMatchAt(s, j).some}
    IN  IF starts = {} THEN SubSeq(s, i, Len(s))
        ELSE LET j  == Min(starts)
                 mt == PrecisionMatchAt(s, j).val
             IN  SubSeq(s, i, mt.d1e) \o <<".">> \o SubSeq(s, mt.d2s, mt.d2e)
                 \o ReplacePrecisionFrom(s, mt.d2e + 1)

ReplacePrecision(s) == ReplacePrecisionFrom(s, 1)

\* Regex ([a-zA-Z]+)|(\d+) find_iter(s): the letter-runs and digit-runs of s
RECURSIVE FindRunsFrom(_, _)
FindRunsFrom(s, i) ==
    LET starts == {j \in i..Len(s) : IsLetter(s[j]) \/ IsDigit(s[j])}
    IN  IF starts = {} THEN << >>
        ELSE LET j == Min(starts)
                 e == IF IsLetter(s[j]) THEN LettersEnd(s, j) ELSE DigitsEnd(s, j)
             IN  <<SubSeq(s, j, e)>> \o FindRunsFrom(s, e + 1)

FindRuns(s) == FindRunsFrom(s, 1)

\* the value of a decimal digit
DigitVal(c) == (CHOOSE i \in 1..Len(Digits) : Digits[i] = c) - 1

RECURSIVE DecimalValue(_)
DecimalValue(ds) ==
    IF Len(ds) = 0 THEN 0
    ELSE 10 * DecimalValue(SubSeq(ds, 1, Len(ds) - 1)) + DigitVal(ds[Len(ds)])

\* a digit-run without its leading zeros
RECURSIVE StripZeros(_)
StripZeros(ds) ==
    IF Len(ds) > 1 /\ ds[1] = "0" THEN StripZeros(Tail(ds)) ELSE ds

\* str::parse::<i32>().ok() of a letter-run or digit-run: None for a
\* letter-run and for a number above i32::MAX = 2147483647
ParseI32(part) ==
    LET ds == StripZeros(part)
        hi == DecimalValue(SubSeq(ds, 1, Len(ds) - 1))
    IN  IF Len(part) = 0 \/ (\E i \in 1..Len(part) : ~IsDigit(part[i])) THEN None
        ELSE IF Len(ds) < 10 THEN Some(DecimalValue(ds))
        ELSE IF Len(ds) = 10
                /\ (hi < 214748364 \/ (hi = 214748364 /\ DigitVal(ds[10]) <= 7))
             THEN Some(10 * hi + DigitVal(ds[10]))
        ELSE None

\* i32 Display
RECURSIVE IntToString(_)
IntToString(n) ==
    IF n < 10 THEN <<Digits[n + 1]>>
    ELSE IntToString(n \div 10) \o <<Digits[(n % 10) + 1]>>

\* ------------------------------------------------------------ the parser
\* struct Column
Column(name, column_type, length, decimal_places, is_pkey, ref_table, ref_column) ==
    [name |-> name, column_type |-> column_type, length |-> length,
     decimal_places |-> decimal_places, is_nullable |-> ~is_pkey,
     is_pkey |-> is_pkey, ref_table |-> ref_table, ref_column |-> ref_column]

\* slice.get(i).map(f), with 0-based i
GetPart(parts, i) == IF i + 1 <= Len(parts) THEN Some(parts[i + 1]) ELSE None

\* Table::parse_references
parse_references(column_parts) ==
    LET hits == {i \in 1..Len(column_parts) : column_parts[i] = <<"r", "e", "f", "e", "r", "e", "n", "c", "e", "s">>}
        pos  == (CHOOSE i \in hits : \A j \in hits : i <= j) - 1
        rc   == GetPart(column_parts, pos + 2)
    IN  IF hits = {} THEN <<None, None>>
        ELSE <<GetPart(column_parts, pos + 1),
               IF rc.some THEN Some(TrimParens(rc.val)) ELSE None>>

\* the tokens of one column chunk: column_str.trim().split_whitespace()
ColumnParts(column_str) == SplitWhitespace(Trim(column_str))

\* the i-th run of the type descriptor, as the loop over col_parts assigns it
ColParts(column_parts) == FindRuns(column_parts[2])

ColumnType(col_parts) == IF Len(col_parts) >= 1 THEN col_parts[1] ELSE << >>
ColumnLength(col_parts) == IF Len(col_parts) >= 2 THEN ParseI32(col_parts[2]) ELSE None
ColumnDecimals(col_parts) == IF Len(col_parts) >= 3 THEN ParseI32(col_parts[3]) ELSE None

IsPkey(column_parts) ==
    Contains(column_parts, <<"p", "r", "i", "m", "a", "r", "y">>) /\ Contains(column_parts, <<"k", "e", "y">>)

\* the body of the loop over split_column_strings, for a chunk with at
\* least two tokens
ParseColumn(column_str) ==
    LET column_parts == ColumnParts(column_str)
        col_parts    == ColParts(column_parts)
        refs         == parse_references(column_parts)
    IN  Column(column_parts[1], ColumnType(col_parts), ColumnLength(col_parts),
               ColumnDecimals(col_parts), IsPkey(column_parts), refs[1], refs[2])

\* the input lowercased and trimmed
Normalized(create_table_string) == Trim(ToLowercase(create_table_string))

CreateTablePrefix == <<"c", "r", "e", "a", "t", "e", " ", "t", "a", "b", "l", "e", " ">>

\* parts: the text after the prefix, split at the first '('
Parts(create_table_string) ==
    SplitN2(TrimStartMatches(Normalized(create_table_string), CreateTablePrefix), "(")

\* parts[1].rsplitn(2, ')'), defined when parts has two elements
BodyParts(parts) == RSplitN2(parts[2], ")")

\* cleaned_columns.split(','), defined when BodyParts has two elements
SplitColumnStrings(body_parts) == Split(ReplacePrecision(Trim(body_parts[2])), ",")

Panic(why) == [ok |-> FALSE, why |-> why]

\* init_via_sql with the short chunks skipped (`continue`) instead of
\* indexed: the table of the remaining columns
init_via_sql_skipping(create_table_string) ==
    LET parts == Parts(create_table_string)
    IN  IF Len(parts) < 2 THEN Panic("parts[1]")
        ELSE LET body_parts == BodyParts(parts)
             IN  IF Len(body_parts) < 2 THEN Panic("rsplitn[1]")
                 ELSE LET strs == SelectSeq(SplitColumnStrings(body_parts),
                                            LAMBDA c : Len(ColumnParts(c)) >= 2)
                      IN  [ok |-> TRUE,
                           table |-> [name |-> Trim(parts[1]),
                                      columns |-> [i \in 1..Len(strs) |->
                                                      ParseColumn(strs[i])],
                                      comment |-> None]]

\* Table::init_via_sql: the Table, or the panic of the first index out of
\* bounds (parts[1], the rsplitn [1], column_parts[0], column_parts[1])
init_via_sql(create_table_string) ==
    LET parts == Parts(create_table_string)
    IN  IF Len(parts) < 2 THEN Panic("parts[1]")
        ELSE LET body_parts == BodyParts(parts)
             IN  IF Len(body_parts) < 2 THEN Panic("rsplitn[1]")
                 ELSE LET strs == SplitColumnStrings(body_parts)
                      IN  IF \E i \in 1..Len(strs) : Len(ColumnParts(strs[i])) < 2
                          THEN Panic("column_parts")
                          ELSE [ok |-> TRUE,
                                table |-> [name |-> Trim(parts[1]),
                                           columns |-> [i \in 1..Len(strs) |->
                                                           ParseColumn(strs[i])],
                                           comment |-> None]]

\* Table::init
TableInit(name, columns) == [name |-> name, columns |-> columns, comment |-> None]

\* ------------------------------------------------------------ dates
\* chrono::NaiveDate as the number of days since 1970-01-01 (proleptic
\* Gregorian calendar).  NaiveDate::from_ymd(y, m, d):
FromYmd(y, m, d) ==
    LET yy  == IF m <= 2 THEN y - 1 ELSE y
        era == yy \div 400
        yoe == yy - era * 400
        mp  == IF m > 2 THEN m - 3 ELSE m + 9
        doy == (153 * mp + 2) \div 5 + d - 1
        doe == yoe * 365 + yoe \div 4 - yoe \div 100 + doy
    IN  era * 146097 + doe - 719468

\* the year, month and day of a NaiveDate
ToYmd(days) ==
    LET z   == days + 719468
        era == z \div 146097
        doe == z - era * 146097
        yoe == (doe - doe \div 1460 + doe \div 36524 - doe \div 146096) \div 365
        doy == doe - (365 * yoe + yoe \div 4 - yoe \div 100)
        mp  == (5 * doy + 2) \div 153
        d   == doy - (153 * mp + 2) \div 5 + 1
        m   == IF mp < 10 THEN mp + 3 ELSE mp - 9
        y   == yoe + era * 400 + (IF m <= 2 THEN 1 ELSE 0)
    IN  [y |-> y, m |-> m, d |-> d]

\* n in decimal, zero-padded on the left to at least w digits
RECURSIVE ZeroPad(_, _)
ZeroPad(ds, w) == IF Len(ds) >= w THEN ds ELSE ZeroPad(<<"0">> \o ds, w)

\* NaiveDate Display: YYYY-MM-DD (years 0..9999)
FormatDate(days) ==
    LET ymd == ToYmd(days)
    IN  ZeroPad(IntToString(ymd.y), 4) \o <<"-">> \o ZeroPad(IntToString(ymd.m), 2)
        \o <<"-">> \o ZeroPad(IntToString(ymd.d), 2)

\* NaiveDate::from_ymd(2021, 1, 1)
BaseDate == FromYmd(2021, 1, 1)

\* ------------------------------------------------------------ randomness
\* thread_rng(): the thread's generator.  Its i-th draw (i = 0, 1, ...)
\* within one call of generate is fixed by the seed.
Raw(seed, i) == seed + i * (seed + 1)

\* Rng::gen_range(lo..hi)
GenRange(seed, i, lo, hi) == lo + (Raw(seed, i) % (hi - lo))

\* SliceRandom::choose
Choose(arr, seed, i) == arr[GenRange(seed, i, 0, Len(arr)) + 1]

Operators == << <<"=">>, <<">">>, <<"<">>, <<">", "=">>, <<"<", "=">> >>
Names == << <<"A", "l", "i", "c", "e">>, <<"B", "o", "b">>, <<"C", "h", "a", "r", "l", "i", "e">>, <<"D", "a", "v", "i", "d">> >>

Quoted(s) == <<"'">> \o s \o <<"'">>

\* ------------------------------------------------------------ WHERE
\* The start date of a BETWEEN clause drawn at draw i
StartDate(seed, i) == BaseDate + GenRange(seed, i, 0, 3)

\* (0..k).map(|_| format!("'{}'", names.choose(rng))): k quoted names from
\* draw i on
RECURSIVE InValues(_, _, _)
InValues(k, seed, i) ==
    IF k = 0 THEN << >>
    ELSE <<Quoted(Choose(Names, seed, i))>> \o InValues(k - 1, seed, i + 1)

\* one arm of the match in generate_where_clause: the condition of a
\* column of a known type and the number of draws it takes; no condition
\* (continue) for any other type
Condition(column, seed, i, today) ==
    LET t == column.column_type
    IN  IF t \in {<<"i", "n", "t">>, <<"n", "u", "m", "b", "e", "r">>}
        THEN [some |-> TRUE, draws |-> 2,
              val |-> column.name \o <<" ">> \o Choose(Operators, seed, i) \o <<" ">>
                      \o IntToString(GenRange(seed, i + 1, 1, 100))]
        ELSE IF t \in {<<"v", "a", "r", "c", "h", "a", "r">>, <<"t", "e", "x", "t">>}
        THEN LET k == GenRange(seed, i, 2, 11)
             IN  [some |-> TRUE, draws |-> 1 + k,
                  val |-> column.name \o <<" ", "I", "N", " ", "(">>
                          \o Join(InValues(k, seed, i + 1), <<",", " ">>) \o <<")">>]
        ELSE IF t \in {<<"d", "a", "t", "e">>, <<"d", "a", "t", "e", "t", "i", "m", "e">>}
        THEN [some |-> TRUE, draws |-> 1,
              val |-> column.name \o <<" ", "B", "E", "T", "W", "E", "E", "N", " ", "t", "o", "_", "d", "a", "t", "e", "(", "'">>
                      \o FormatDate(StartDate(seed, i))
                      \o <<"'", ",", "'", "Y", "Y", "Y", "Y", "-", "M", "M", "-", "D", "D", "'", ")", " ", "A", "N", "D", " ", "t", "o", "_", "d", "a", "t", "e", "(", "'">>
                      \o FormatDate(today) \o <<"'", ",", "'", "Y", "Y", "Y", "Y", "-", "M", "M", "-", "D", "D", "'", ")">>]
        ELSE [some |-> FALSE, draws |-> 0]

\* a loop that puts the condition of each column before those of the
\* columns already visited
RECURSIVE ConditionsNewestFirst(_, _, _, _, _)
ConditionsNewestFirst(columns, c, seed, i, today) ==
    IF c > Len(columns) THEN << >>
    ELSE LET cond == Condition(columns[c], seed, i, today)
         IN  ConditionsNewestFirst(columns, c + 1, seed, i + cond.draws, today)
             \o (IF cond.some THEN <<cond.val>> ELSE << >>)

\* the loop of generate_where_clause over the columns from index c on
RECURSIVE Conditions(_, _, _, _, _)
Conditions(columns, c, seed, i, today) ==
    IF c > Len(columns) THEN << >>
    ELSE LET cond == Condition(columns[c], seed, i, today)
         IN  (IF cond.some THEN <<cond.val>> ELSE << >>)
             \o Conditions(columns, c + 1, seed, i + cond.draws, today)

\* Table::generate_where_clause, its first draw being draw i
generate_where_clause(table, seed, i, today) ==
    Join(Conditions(table.columns, 1, seed, i, today), <<" ", "A", "N", "D", " ">>)

\* ------------------------------------------------------------ values
\* format!("{:.d$}", n as f64 / 10f64.powi(d)) for 1 <= n < 100; 10^d is
\* infinite in f64 from d = 309 on
FormatFixed(n, d) ==
    LET ds == IntToString(n)
    IN  IF d = 0 THEN ds
        ELSE IF d > 308 THEN <<"0", ".">> \o ZeroPad(<< >>, d)
        ELSE IF Len(ds) > d THEN SubSeq(ds, 1, Len(ds) - d) \o <<".">>
                                  \o SubSeq(ds, Len(ds) - d + 1, Len(ds))
        ELSE <<"0", ".">> \o ZeroPad(ds, d)

\* the match of Insert and Update on the column type: the literal and the
\* number of draws it takes
Value(column, seed, i, today) ==
    LET t == column.column_type
    IN  IF t \in {<<"v", "a", "r", "c", "h", "a", "r">>, <<"t", "e", "x", "t">>}
        THEN [draws |-> 1, val |-> Quoted(Choose(Names, seed, i))]
        ELSE IF t \in {<<"d", "a", "t", "e">>, <<"d", "a", "t", "e", "t", "i", "m", "e">>}
        THEN [draws |-> 0,
              val |-> <<"t", "o", "_", "d", "a", "t", "e", "(", "'">> \o FormatDate(today) \o <<"'", ",", "'", "Y", "Y", "Y", "Y", "-", "M", "M", "-", "D", "D", "'", ")">>]
        ELSE IF t = <<"n", "u", "m", "b", "e", "r">> /\ column.decimal_places.some
        THEN [draws |-> 1,
              val |-> FormatFixed(GenRange(seed, i, 1, 100), column.decimal_places.val)]
        ELSE [draws |-> 1, val |-> IntToString(GenRange(seed, i, 1, 100))]

\* values and assignments that leave out every column whose literal takes
\* no draw
RECURSIVE ValuesOfDraws(_, _, _, _, _, _)
ValuesOfDraws(columns, c, seed, i, today, assign) ==
    IF c > Len(columns) THEN << >>
    ELSE LET v == Value(columns[c], seed, i, today)
         IN  (IF v.draws = 0 THEN << >>
              ELSE <<IF assign THEN columns[c].name \o <<" ", "=", " ">> \o v.val ELSE v.val>>)
             \o ValuesOfDraws(columns, c + 1, seed, i + v.draws, today, assign)

\* the values of Insert (assign = FALSE) or the assignments of Update
\* (assign = TRUE) for the columns from index c on
RECURSIVE Values(_, _, _, _, _, _)
Values(columns, c, seed, i, today, assign) ==
    IF c > Len(columns) THEN << >>
    ELSE LET v == Value(columns[c], seed, i, today)
         IN  <<IF assign THEN columns[c].name \o <<" ", "=", " ">> \o v.val ELSE v.val>>
             \o Values(columns, c + 1, seed, i + v.draws, today, assign)

\* the draws the values of all columns take
RECURSIVE ValueDraws(_, _, _, _)
ValueDraws(columns, c, seed, today) ==
    IF c > Len(columns) THEN 0
    ELSE Value(columns[c], seed, 0, today).draws + ValueDraws(columns, c + 1, seed, today)

ColumnNames(table) == [c \in 1..Len(table.columns) |-> table.columns[c].name]

\* ------------------------------------------------------------ CREATE / ALTER
\* a suffix that prints the decimal places whenever they are present, with
\* or without a length
LengthSuffixOfEither(column) ==
    IF column.length.some \/ column.decimal_places.some
    THEN <<"(">>
         \o (IF column.length.some THEN IntToString(column.length.val) ELSE << >>)
         \o (IF column.decimal_places.some
             THEN <<",">> \o IntToString(column.decimal_places.val) ELSE << >>)
         \o <<")">>
    ELSE << >>

\* the (length[,decimal_places]) suffix of a column clause
LengthSuffix(column) ==
    IF column.length.some
    THEN IF column.decimal_places.some
         THEN <<"(">> \o IntToString(column.length.val) \o <<",">>
              \o IntToString(column.decimal_places.val) \o <<")">>
         ELSE <<"(">> \o IntToString(column.length.val) \o <<")">>
    ELSE << >>

\* name type[(length[,decimals])][ NOT NULL][ PRIMARY KEY]
ColumnClause(column) ==
    column.name \o <<" ">> \o column.column_type \o LengthSuffix(column)
    \o (IF column.is_nullable THEN << >> ELSE <<" ", "N", "O", "T", " ", "N", "U", "L", "L">>)
    \o (IF column.is_pkey THEN <<" ", "P", "R", "I", "M", "A", "R", "Y", " ", "K", "E", "Y">> ELSE << >>)

\* if self.columns.last().unwrap().name != column.name { ", " } else { "" }
Separator(table, column) ==
    IF table.columns[Len(table.columns)].name # column.name THEN <<",", " ">> ELSE << >>

\* the loop pushing one formatted clause per column, from index c on
RECURSIVE Clauses(_, _, _)
Clauses(table, c, prefix) ==
    IF c > Len(table.columns) THEN << >>
    ELSE prefix \o ColumnClause(table.columns[c]) \o Separator(table, table.columns[c])
         \o Clauses(table, c + 1, prefix)

\* ------------------------------------------------------------ generate
SqlTypes == {"CreateTable", "AlterTable", "DropTable", "Insert", "Select", "Update", "Delete"}

\* Table::generate
generate(table, sql_type, seed, today) ==
    CASE sql_type = "CreateTable" ->
            <<"C", "R", "E", "A", "T", "E", " ", "T", "A", "B", "L", "E", " ">> \o table.name \o <<" ", "(">> \o Clauses(table, 1, << >>) \o <<")", ";">>
      [] sql_type = "AlterTable" ->
            TrimEndMatches(<<"A", "L", "T", "E", "R", " ", "T", "A", "B", "L", "E", " ">> \o table.name \o <<" ">>
                           \o Clauses(table, 1, <<"A", "D", "D", " ", "C", "O", "L", "U", "M", "N", " ">>), <<",", " ">>) \o <<";">>
      [] sql_type = "DropTable" ->
            <<"D", "R", "O", "P", " ", "T", "A", "B", "L", "E", " ">> \o table.name \o <<";">>
      [] sql_type = "Insert" ->
            <<"I", "N", "S", "E", "R", "T", " ", "I", "N", "T", "O", " ">> \o table.name \o <<" ", "(">> \o Join(ColumnNames(table), <<",", " ">>)
            \o <<")", " ", "V", "A", "L", "U", "E", "S", " ", "(">>
            \o Join(Values(table.columns, 1, seed, 0, today, FALSE), <<",", " ">>) \o <<")", ";">>
      [] sql_type = "Select" ->
            <<"S", "E", "L", "E", "C", "T", " ">> \o Join(ColumnNames(table), <<",", " ">>) \o <<" ", "F", "R", "O", "M", " ">> \o table.name
            \o <<" ", "W", "H", "E", "R", "E", " ">> \o generate_where_clause(table, seed, 0, today) \o <<";">>
      [] sql_type = "Update" ->
            <<"U", "P", "D", "A", "T", "E", " ">> \o table.name \o <<" ", "S", "E", "T", " ">>
            \o Join(Values(table.columns, 1, seed, 0, today, TRUE), <<",", " ">>)
            \o <<" ", "W", "H", "E", "R", "E", " ">>
            \o generate_where_clause(table, seed, ValueDraws(table.columns, 1, seed, today),
                                     today)
            \o <<";">>
      [] sql_type = "Delete" ->
            <<"D", "E", "L", "E", "T", "E", " ", "F", "R", "O", "M", " ">> \o table.name \o <<" ", "W", "H", "E", "R", "E", " ">>
            \o generate_where_clause(table, seed, 0, today) \o <<";">>

\* ------------------------------------------------------------ inputs
\* Column definitions the DDL inputs are built from: the documented shapes,
\* an unrecognized type, a type ending in a digit, a name starting with a
\* digit, a foreign key, a chunk of one token and an empty chunk.
Chunks ==
    { <<"i", "d", " ", "n", "u", "m", "b", "e", "r", "(", "1", "0", ")", " ", "p", "r", "i", "m", "a", "r", "y", " ", "k", "e", "y">>,
      <<"n", "a", "m", "e", " ", "v", "a", "r", "c", "h", "a", "r", "(", "2", "5", "5", ")">>,
      <<"p", "r", "i", "c", "e", " ", "n", "u", "m", "b", "e", "r", "(", "1", "0", ",", " ", "2", ")">>,
      <<"d", " ", "d", "a", "t", "e">>,
      <<"a", " ", "b", "o", "o", "l">>,
      <<"v", " ", "v", "a", "r", "c", "h", "a", "r", "2">>,
      <<"2", "b", " ", "i", "n", "t">>,
      <<"c", " ", "i", "n", "t", " ", "r", "e", "f", "e", "r", "e", "n", "c", "e", "s", " ", "c", "(", "i", "d", ")">>,
      <<"x">>,
      << >> }

\* Column definitions tried alone: type descriptors whose runs come in
\* another order than letters, digits, digits; a digit-run above i32::MAX;
\* `key` before `primary` and each of the two alone.
EdgeChunks ==
    { <<"q", " ", "2", "i", "n", "t">>,
      <<"e", " ", "n", "u", "m", "b", "e", "r", "(", "1", "0", "e", "2", ")">>,
      <<"w", " ", "n", "u", "m", "b", "e", "r", "(", "a", "b", "c", "5", ")">>,
      <<"b", " ", "n", "u", "m", "b", "e", "r", "(", "9", "9", "9", "9", "9", "9", "9", "9", "9", "9", "9", ")">>,
      <<"k", " ", "i", "n", "t", " ", "k", "e", "y", " ", "p", "r", "i", "m", "a", "r", "y">>,
      <<"p", " ", "i", "n", "t", " ", "p", "r", "i", "m", "a", "r", "y">>,
      <<"y", " ", "i", "n", "t", " ", "k", "e", "y">> }

\* the sequences of 1..n chunks
RECURSIVE ChunkSeqs(_)
ChunkSeqs(n) ==
    IF n = 0 THEN {<< >>}
    ELSE LET shorter == ChunkSeqs(n - 1)
         IN  shorter \cup {Append(q, c) : q \in {r \in shorter : Len(r) = n - 1}, c \in Chunks}

Shapes == {"std", "upper", "noprefix", "noopen", "noclose", "trailing"}

\* a DDL input of the given shape around the column definitions
Build(shape, cols) ==
    LET body == Join(cols, <<",", " ">>)
    IN  CASE shape = "std"      -> <<"c", "r", "e", "a", "t", "e", " ", "t", "a", "b", "l", "e", " ", "t", " ", "(">> \o body \o <<")">>
          [] shape = "upper"    -> <<" ", "C", "R", "E", "A", "T", "E", " ", "T", "A", "B", "L", "E", " ", "T", " ", "(">> \o body \o <<")", ";", " ">>
          [] shape = "noprefix" -> <<"t", " ", "(">> \o body \o <<")">>
          [] shape = "noopen"   -> <<"c", "r", "e", "a", "t", "e", " ", "t", "a", "b", "l", "e", " ", "t", " ">> \o body
          [] shape = "noclose"  -> <<"c", "r", "e", "a", "t", "e", " ", "t", "a", "b", "l", "e", " ", "t", " ", "(">> \o body
          [] shape = "trailing" -> <<"c", "r", "e", "a", "t", "e", " ", "t", "a", "b", "l", "e", " ", "t", " ", "(">> \o body \o <<",", ")">>

\* the DDL strings of main and of the tests
MainDDLs ==
    { <<"c", "r", "e", "a", "t", "e", " ", "t", "a", "b", "l", "e", " ", "o", "r", "d", "e", "r", "s", "(", "o", "r", "d", "e", "r", "_", "i", "d", " ", "n", "u", "m", "b", "e", "r", "(", "1", "0", ")", " ", "p", "r", "i", "m", "a", "r", "y", " ", "k", "e", "y", ",", " ", "o", "r", "d", "e", "r", "_", "d", "a", "t", "e", " ", "d", "a", "t", "e", ",", " ", "c", "u", "s", "t", "o", "m", "e", "r", "_", "i", "d", " ", "n", "u", "m", "b", "e", "r", "(", "1", "0", ")", ")">>,
      <<"c", "r", "e", "a", "t", "e", " ", "t", "a", "b", "l", "e", " ", "c", "u", "s", "t", "o", "m", "e", "r", "s", "(", "c", "u", "s", "t", "o", "m", "e", "r", "_", "i", "d", " ", "n", "u", "m", "b", "e", "r", "(", "1", "0", ")", " ", "p", "r", "i", "m", "a", "r", "y", " ", "k", "e", "y", ",", " ", "c", "u", "s", "t", "o", "m", "e", "r", "_", "n", "a", "m", "e", " ", "v", "a", "r", "c", "h", "a", "r", "(", "2", "5", "5", ")", ",", " ", "c", "u", "s", "t", "o", "m", "e", "r", "_", "e", "m", "a", "i", "l", " ", "v", "a", "r", "c", "h", "a", "r", "(", "2", "5", "5", ")", ")">>,
      <<"c", "r", "e", "a", "t", "e", " ", "t", "a", "b", "l", "e", " ", "p", "r", "o", "d", "u", "c", "t", "s", "(", "p", "r", "o", "d", "u", "c", "t", "_", "i", "d", " ", "n", "u", "m", "b", "e", "r", "(", "1", "0", ")", " ", "p", "r", "i", "m", "a", "r", "y", " ", "k", "e", "y", ",", " ", "p", "r", "o", "d", "u", "c", "t", "_", "n", "a", "m", "e", " ", "v", "a", "r", "c", "h", "a", "r", "(", "2", "5", "5", ")", ",", " ", "p", "r", "o", "d", "u", "c", "t", "_", "p", "r", "i", "c", "e", " ", "n", "u", "m", "b", "e", "r", "(", "1", "0", ",", " ", "2", ")", ")">>,
      <<"c", "r", "e", "a", "t", "e", " ", "t", "a", "b", "l", "e", " ", "t", "e", "s", "t", "_", "t", "a", "b", "l", "e", " ", "(", "i", "d", " ", "n", "u", "m", "b", "e", "r", "(", "1", "0", ")", " ", "p", "r", "i", "m", "a", "r", "y", " ", "k", "e", "y", ",", " ", "n", "a", "m", "e", " ", "v", "a", "r", "c", "h", "a", "r", "(", "2", "5", "5", ")", ")">> }

DDLs ==
    {Build("std", cols) : cols \in ChunkSeqs(MaxCols) \ {<< >>}}
    \cup {Build(shape, <<c>>) : shape \in Shapes, c \in Chunks}
    \cup {Build("std", <<c>>) : c \in EdgeChunks}
    \cup MainDDLs

\* the columns handed to Table::init directly
TestColumns ==
    << Column(<<"i", "d">>, <<"n", "u", "m", "b", "e", "r">>, Some(10), None, TRUE, None, None),
       Column(<<"n", "a", "m", "e">>, <<"v", "a", "r", "c", "h", "a", "r">>, Some(255), None, FALSE, None, None) >>

InitColumns ==
    { << >>,
      TestColumns,
      << Column(<<"a">>, <<"b", "o", "o", "l">>, None, None, FALSE, None, None) >>,
      << Column(<<"n">>, <<"i", "n", "t">>, None, Some(2), FALSE, None, None),
         Column(<<"d">>, <<"d", "a", "t", "e", "t", "i", "m", "e">>, None, None, FALSE, None, None) >>,
      << [Column(<<"u">>, <<"t", "e", "x", "t">>, Some(5), Some(1), FALSE, None, None)
             EXCEPT !.is_nullable = FALSE],
         [Column(<<"g">>, <<"n", "u", "m", "b", "e", "r">>, Some(3), None, TRUE, None, None)
             EXCEPT !.is_nullable = TRUE] >> }

\* the dates the local clock may read
Days == (BaseDate - MaxEarly)..(BaseDate + MaxLate)

\* ------------------------------------------------------------ the program
VARIABLES
    pc,        \* "start", "panicked", "ready", "generated", "regenerated",
               \* "reparsed"
    ddl,       \* the argument of init_via_sql
    table,     \* the Table built, None before
    sql_type,  \* the kind of the statement generated
    seed,      \* the seed of the draws of the call
    today,     \* chrono::Local::today()
    sql,       \* the statement generated by the first call
    called_on, \* the date of the first call
    sql2,      \* the statement generated by the second call
    reparsed   \* init_via_sql of the statement generated, None before

vars == <<pc, ddl, table, sql_type, seed, today, sql, called_on, sql2, reparsed>>

Init ==
    /\ pc = "start"
    /\ ddl = << >>
    /\ table = None
    /\ sql_type = "none"
    /\ seed = 0
    /\ today \in Days
    /\ sql = << >>
    /\ called_on = 0
    /\ sql2 = << >>
    /\ reparsed = None

\* let t = Table::init_via_sql(s): the table, or the panic
InitViaSql ==
    \E s \in DDLs :
        /\ pc = "start"
        /\ ddl' = s
        /\ LET r == init_via_sql(s)
           IN  IF r.ok THEN pc' = "ready" /\ table' = Some(r.table)
               ELSE pc' = "panicked" /\ table' = None
        /\ UNCHANGED <<sql_type, seed, today, sql, called_on, sql2, reparsed>>

\* let t = Table::init(name, columns)
InitDirect ==
    \E columns \in InitColumns :
        /\ pc = "start"
        /\ table' = Some(TableInit(<<"t", "e", "s", "t", "_", "t", "a", "b", "l", "e">>, columns))
        /\ pc' = "ready"
        /\ UNCHANGED <<ddl, sql_type, seed, today, sql, called_on, sql2, reparsed>>

\* t.generate(kind), the thread's generator being in the state `sd`
Generate ==
    \E kind \in SqlTypes, sd \in 0..MaxSeed :
        /\ pc = "ready"
        /\ sql_type' = kind
        /\ seed' = sd
        /\ sql' = generate(table.val, kind, sd, today)
        /\ called_on' = today
        /\ pc' = "generated"
        /\ UNCHANGED <<ddl, table, today, sql2, reparsed>>

\* midnight passes between two calls
Tick ==
    /\ pc = "generated"
    /\ today < BaseDate + MaxLate
    /\ today' = today + 1
    /\ UNCHANGED <<pc, ddl, table, sql_type, seed, sql, called_on, sql2, reparsed>>

\* t.generate(kind) again: the same table, the same kind, the same draws
GenerateAgain ==
    /\ pc = "generated"
    /\ sql2' = generate(table.val, sql_type, seed, today)
    /\ pc' = "regenerated"
    /\ UNCHANGED <<ddl, table, sql_type, seed, today, sql, called_on, reparsed>>

\* Table::init_via_sql(&sql) of the CREATE TABLE statement generated
Reparse ==
    /\ pc = "generated"
    /\ sql_type = "CreateTable"
    /\ reparsed' = Some(init_via_sql(sql))
    /\ pc' = "reparsed"
    /\ UNCHANGED <<ddl, table, sql_type, seed, today, sql, called_on, sql2>>

Next == InitViaSql \/ InitDirect \/ Generate \/ Tick \/ GenerateAgain \/ Reparse

Spec == Init /\ [][Next]_vars

\* ------------------------------------------------------------ properties
\* the statement holds the text p
HasSubstring(s, p) == \E i \in 1..(Len(s) - Len(p) + 1) : SubSeq(s, i, i + Len(p) - 1) = p

\* init_via_sql has returned or panicked on the input ddl
Parsed == pc \in {"ready", "panicked"} /\ ddl # << >>

\* init_via_sql has returned a Table for the input ddl
ParsedOk == pc = "ready" /\ ddl # << >>

\* generate has returned its first statement
Generated == pc = "generated"

Columns == table.val.columns

\* the text between the first '(' and the last ')' of the normalized input
ColumnBody(s) ==
    LET n == Normalized(s)
    IN  SubSeq(n, IndexOf(n, "(") + 1, LastIndexOf(n, ")") - 1)

\* C1: every input that, lowercased and trimmed, does not start with
\* `create table ` makes init_via_sql fail: no Table is returned.
C1_MissingPrefixFails ==
    (Parsed /\ ~StartsWith(Normalized(ddl), CreateTablePrefix))
        => (pc = "panicked" /\ table = None)

\* the input has no '(', or no ')' after its first '(', or a column chunk
\* has fewer than two tokens.  A column chunk is a piece of the column list
\* split at its commas after the precision rewrite (`number(10, 2)` is one
\* chunk, not `number(10` and `2)`).
NoOpenParen(s) == IndexOf(Normalized(s), "(") = 0

NoCloseParen(s) ==
    LET n == Normalized(s)
    IN  IndexOf(n, "(") > 0 /\ \A i \in (IndexOf(n, "(") + 1)..Len(n) : n[i] # ")"

HasShortChunk(s) ==
    LET chunks == Split(ReplacePrecision(ColumnBody(s)), ",")
    IN  \E i \in 1..Len(chunks) : Len(SplitWhitespace(chunks[i])) < 2

Malformed(s) == NoOpenParen(s) \/ NoCloseParen(s) \/ HasShortChunk(s)

ParenDepth(s, i) ==
    Cardinality({j \in 1..i : s[j] = "("}) - Cardinality({j \in 1..i : s[j] = ")"})

\* the commas of s outside any parentheses
TopLevelCommas(s) ==
    Cardinality({i \in 1..Len(s) : s[i] = "," /\ ParenDepth(s, i) = 0})

\* the parentheses of s are balanced
Balanced(s) ==
    /\ \A i \in 1..Len(s) : ParenDepth(s, i) >= 0
    /\ ParenDepth(s, Len(s)) = 0

\* `create table <name> (<column definitions>)` with balanced parentheses
\* in the column list
DocumentedShape(s) ==
    /\ StartsWith(Normalized(s), CreateTablePrefix)
    /\ ~NoOpenParen(s) /\ ~NoCloseParen(s)
    /\ Balanced(ColumnBody(s))

\* C3: for a DDL of the documented shape the number of columns is one plus
\* the number of commas of the column list outside any parentheses: the
\* precision rewrite joins no two column definitions.
C3_OneColumnPerTopLevelComma ==
    (ParsedOk /\ DocumentedShape(ddl))
        => Len(Columns) = 1 + TopLevelCommas(ColumnBody(ddl))

\* the table in hand was built by Table::init, or parsed from a DDL of the
\* documented shape in which the rewrite joined no two column definitions
CleanTable ==
    ddl # << >> =>
        (DocumentedShape(ddl) /\ Len(Columns) = 1 + TopLevelCommas(ColumnBody(ddl)))

\* the column clauses of the table, each after the given prefix
ClauseList(prefix) == [c \in 1..Len(Columns) |-> prefix \o ColumnClause(Columns[c])]

\* C4: for a parsed table of n >= 1 columns CreateTable is
\* `CREATE TABLE <name> (` + the n clauses joined by `, ` + `);` and
\* AlterTable is `ALTER TABLE <name> ` + the n `ADD COLUMN` clauses joined
\* by `, ` + `;`, duplicate column names included.
C4_ClausesJoinedByComma ==
    (Generated /\ sql_type \in {"CreateTable", "AlterTable"}
     /\ ddl # << >> /\ Len(Columns) >= 1 /\ CleanTable)
        => /\ sql_type = "CreateTable"
                => sql = <<"C", "R", "E", "A", "T", "E", " ", "T", "A", "B", "L", "E", " ">> \o table.val.name \o <<" ", "(">>
                         \o Join(ClauseList(<< >>), <<",", " ">>) \o <<")", ";">>
           /\ sql_type = "AlterTable"
                => sql = <<"A", "L", "T", "E", "R", " ", "T", "A", "B", "L", "E", " ">> \o table.val.name \o <<" ">>
                         \o Join(ClauseList(<<"A", "D", "D", " ", "C", "O", "L", "U", "M", "N", " ">>), <<",", " ">>) \o <<";">>

\* C5: Select, Update and Delete never hold `WHERE ;`: the WHERE keyword
\* is omitted or followed by a predicate, whatever the column types.
C5_WhereNeverEmpty ==
    (Generated /\ sql_type \in {"Select", "Update", "Delete"} /\ CleanTable)
        => ~HasSubstring(sql, <<"W", "H", "E", "R", "E", " ", ";">>)

\* the first index of the text p in s, 0 when absent
FindSub(s, p) ==
    LET idx == {i \in 1..(Len(s) - Len(p) + 1) : SubSeq(s, i, i + Len(p) - 1) = p}
    IN  IF idx = {} THEN 0 ELSE CHOOSE i \in idx : \A j \in idx : i <= j

\* the text of s after the first a and before the first b that follows
After(s, a) == SubSeq(s, FindSub(s, a) + Len(a), Len(s))
Before(s, b) == SubSeq(s, 1, FindSub(s, b) - 1)

\* s split at every occurrence of the text sep
RECURSIVE SplitStr(_, _)
SplitStr(s, sep) ==
    LET i == FindSub(s, sep)
    IN  IF i = 0 THEN <<s>>
        ELSE <<SubSeq(s, 1, i - 1)>> \o SplitStr(SubSeq(s, i + Len(sep), Len(s)), sep)

\* the value list of an Insert, the assignments of an Update, the tokens
\* of the predicate of a Select, Update or Delete
InsertValues(stmt) == SplitStr(Before(After(stmt, <<")", " ", "V", "A", "L", "U", "E", "S", " ", "(">>), <<")", ";">>), <<",", " ">>)
UpdateValues(stmt) ==
    LET pairs == SplitStr(Before(After(stmt, <<" ", "S", "E", "T", " ">>), <<" ", "W", "H", "E", "R", "E", " ">>), <<",", " ">>)
    IN  [c \in 1..Len(pairs) |-> After(pairs[c], <<" ", "=", " ">>)]
PredicateTokens(stmt) ==
    SplitWhitespace(TrimEndMatches(After(stmt, <<" ", "W", "H", "E", "R", "E", " ">>), <<";">>))

\* the digits of a literal after its decimal point
FractionDigits(v) == IF IndexOf(v, ".") = 0 THEN 0 ELSE Len(v) - IndexOf(v, ".")

IsNumeric(column) == column.column_type \in {<<"n", "u", "m", "b", "e", "r">>, <<"i", "n", "t">>}

\* C6: every value synthesized for a numeric column with decimalPlaces =
\* Some(d) has exactly d digits after the decimal point: the Insert
\* literal, the Update literal and the value compared in the predicate.
C6_ExactlyDDecimals ==
    (Generated /\ CleanTable) =>
        \A c \in 1..Len(Columns) :
            (IsNumeric(Columns[c]) /\ Columns[c].decimal_places.some) =>
                LET d == Columns[c].decimal_places.val
                IN  /\ sql_type = "Insert" => FractionDigits(InsertValues(sql)[c]) = d
                    /\ sql_type = "Update" => FractionDigits(UpdateValues(sql)[c]) = d
                    /\ sql_type \in {"Select", "Update", "Delete"} =>
                          LET toks == PredicateTokens(sql)
                          IN  \A i \in 1..(Len(toks) - 2) :
                                  (toks[i] = Columns[c].name
                                   /\ toks[i + 1] \in Range(Operators))
                                      => FractionDigits(toks[i + 2]) = d

\* the NaiveDate a text YYYY-MM-DD names
DateOf(text) ==
    FromYmd(DecimalValue(SubSeq(text, 1, 4)), DecimalValue(SubSeq(text, 6, 7)),
            DecimalValue(SubSeq(text, 9, 10)))

BetweenOpen == <<"B", "E", "T", "W", "E", "E", "N", " ", "t", "o", "_", "d", "a", "t", "e", "(", "'">>
BetweenMid == <<"'", ",", "'", "Y", "Y", "Y", "Y", "-", "M", "M", "-", "D", "D", "'", ")", " ", "A", "N", "D", " ", "t", "o", "_", "d", "a", "t", "e", "(", "'">>

\* C7: in every BETWEEN clause of a generated statement the start date is
\* not later than the end date, whatever the local date and the offset.
C7_StartNotAfterEnd ==
    (Generated /\ sql_type \in {"Select", "Update", "Delete"} /\ CleanTable) =>
        \A i \in 1..Len(sql) :
            (i + Len(BetweenOpen) + Len(BetweenMid) + 19 <= Len(sql)
             /\ SubSeq(sql, i, i + Len(BetweenOpen) - 1) = BetweenOpen) =>
                LET s0 == i + Len(BetweenOpen)
                    e0 == s0 + 10 + Len(BetweenMid)
                IN  DateOf(SubSeq(sql, s0, s0 + 9)) <= DateOf(SubSeq(sql, e0, e0 + 9))

\* C8: two calls of generate with the same table, the same kind and the
\* same draws return the same statement.
C8_SameDrawsSameStatement ==
    (pc = "regenerated" /\ CleanTable) => sql2 = sql

\* the tokens of the chunk init_via_sql built column c from
ChunkTokens(c) == ColumnParts(SplitColumnStrings(BodyParts(Parts(ddl)))[c])

\* a token of the form <table>(<column>)
IsCall(tok) ==
    /\ IndexOf(tok, "(") > 1 /\ tok[Len(tok)] = ")"
    /\ IndexOf(tok, "(") < Len(tok) - 1
    /\ \A i \in 1..Len(tok) : (tok[i] = "(") => i = IndexOf(tok, "(")
    /\ \A i \in 1..Len(tok) : (tok[i] = ")") => i = Len(tok)

\* C9: `references <table>(<column>)` sets refTable = <table> and
\* refColumn = <column>; without the token `references` both are absent;
\* never is exactly one of the two present.
C9_ReferencesBothOrNeither ==
    (ParsedOk /\ CleanTable) =>
        \A c \in 1..Len(Columns) :
            LET toks == ChunkTokens(c)
                col  == Columns[c]
            IN  /\ col.ref_table.some <=> col.ref_column.some
                /\ ~Contains(toks, <<"r", "e", "f", "e", "r", "e", "n", "c", "e", "s">>)
                      => (~col.ref_table.some /\ ~col.ref_column.some)
                /\ \A j \in 1..(Len(toks) - 1) :
                      (toks[j] = <<"r", "e", "f", "e", "r", "e", "n", "c", "e", "s">> /\ IsCall(toks[j + 1])
                       /\ \A k \in 1..(j - 1) : toks[k] # <<"r", "e", "f", "e", "r", "e", "n", "c", "e", "s">>)
                          => /\ col.ref_table = Some(Before(toks[j + 1], <<"(">>))
                             /\ col.ref_column
                                  = Some(TrimParens(After(toks[j + 1], <<"(">>)))

KnownTypes == {<<"n", "u", "m", "b", "e", "r">>, <<"i", "n", "t">>, <<"v", "a", "r", "c", "h", "a", "r">>, <<"t", "e", "x", "t">>, <<"d", "a", "t", "e">>, <<"d", "a", "t", "e", "t", "i", "m", "e">>}

\* the type a type token names: the token up to its '('
TypeName(tok) == IF IndexOf(tok, "(") = 0 THEN tok ELSE Before(tok, <<"(">>)

\* C10: a type token that names no known category is stored verbatim as the
\* column type, and the column gets no clause in the WHERE predicate.
C10_UnknownTypeStoredAndSkipped ==
    /\ (ParsedOk /\ CleanTable) =>
          \A c \in 1..Len(Columns) :
              TypeName(ChunkTokens(c)[2]) \notin KnownTypes
                  => Columns[c].column_type = TypeName(ChunkTokens(c)[2])
    /\ (Generated /\ ddl # << >> /\ sql_type \in {"Select", "Delete"} /\ CleanTable) =>
          \A c \in 1..Len(Columns) :
              (/\ TypeName(ChunkTokens(c)[2]) \notin KnownTypes
               /\ \A o \in 1..Len(Columns) : Columns[o].name = Columns[c].name => o = c)
                  => ~Contains(PredicateTokens(sql), Columns[c].name)

\* the letter-runs and the digit-runs of a type descriptor, in order
LetterRuns(tok) == SelectSeq(FindRuns(tok), LAMBDA r : IsLetter(r[1]))
DigitRuns(tok) == SelectSeq(FindRuns(tok), LAMBDA r : IsDigit(r[1]))

\* the Option<i32> opt holds the number the digit-run names
HoldsRun(opt, run) == opt.some /\ IntToString(opt.val) = StripZeros(run)

\* C11: type = the first letter-run of token 1, length = its first
\* digit-run, decimalPlaces = its second digit-run, in whatever order the
\* runs appear in the token.
C11_RunsByKind ==
    (ParsedOk /\ CleanTable) =>
        \A c \in 1..Len(Columns) :
            LET tok  == ChunkTokens(c)[2]
                ls   == LetterRuns(tok)
                ds   == DigitRuns(tok)
                col  == Columns[c]
            IN  /\ col.column_type = (IF Len(ls) >= 1 THEN ls[1] ELSE << >>)
                /\ IF Len(ds) >= 1 THEN HoldsRun(col.length, ds[1])
                   ELSE ~col.length.some
                /\ IF Len(ds) >= 2 THEN HoldsRun(col.decimal_places, ds[2])
                   ELSE ~col.decimal_places.some

\* C12: a column is a primary key exactly when its tokens contain
\* `primary` and a `key` that occurs later than that `primary`.
C12_PrimaryThenKey ==
    (ParsedOk /\ CleanTable) =>
        \A c \in 1..Len(Columns) :
            LET toks == ChunkTokens(c)
            IN  Columns[c].is_pkey <=>
                    \E i, j \in 1..Len(toks) :
                        /\ i < j
                        /\ toks[i] = <<"p", "r", "i", "m", "a", "r", "y">>
                        /\ toks[j] = <<"k", "e", "y">>

\* the clause a column is to be rendered as: name, type, the suffix its
\* length and decimal places call for, NOT NULL, PRIMARY KEY
ExpectedSuffix(col) ==
    CASE col.length.some /\ col.decimal_places.some ->
            <<"(">> \o IntToString(col.length.val) \o <<",">>
            \o IntToString(col.decimal_places.val) \o <<")">>
      [] col.length.some /\ ~col.decimal_places.some ->
            <<"(">> \o IntToString(col.length.val) \o <<")">>
      [] ~col.length.some -> << >>

ExpectedClause(col) ==
    col.name \o <<" ">> \o col.column_type \o ExpectedSuffix(col)
    \o (IF ~col.is_nullable THEN <<" ", "N", "O", "T", " ", "N", "U", "L", "L">> ELSE << >>)
    \o (IF col.is_pkey THEN <<" ", "P", "R", "I", "M", "A", "R", "Y", " ", "K", "E", "Y">> ELSE << >>)

\* the clauses of all columns from c on, each behind prefix and followed by
\* the separator seps[c]
RECURSIVE ClausesWith(_, _, _)
ClausesWith(prefix, seps, c) ==
    IF c > Len(Columns) THEN << >>
    ELSE prefix \o ExpectedClause(Columns[c]) \o seps[c] \o ClausesWith(prefix, seps, c + 1)

\* stmt is head, one clause per column in order with some separators, tail
RendersClauses(stmt, head, prefix, tail) ==
    \E seps \in [1..Len(Columns) -> {<<",", " ">>, << >>}] :
        stmt = head \o ClausesWith(prefix, seps, 1) \o tail

\* C13: CreateTable and AlterTable render every column as the same clause
\* `name type[(length[,decimalPlaces])][ NOT NULL][ PRIMARY KEY]`: both
\* numbers when both are present, the length alone when only it is present,
\* no suffix when the length is absent; AlterTable puts `ADD COLUMN ` first.
C13_ColumnClause ==
    /\ (Generated /\ sql_type = "CreateTable") =>
           RendersClauses(sql, <<"C", "R", "E", "A", "T", "E", " ", "T", "A", "B", "L", "E", " ">> \o table.val.name \o <<" ", "(">>, << >>, <<")", ";">>)
    /\ (Generated /\ sql_type = "AlterTable") =>
           RendersClauses(sql, <<"A", "L", "T", "E", "R", " ", "T", "A", "B", "L", "E", " ">> \o table.val.name \o <<" ">>, <<"A", "D", "D", " ", "C", "O", "L", "U", "M", "N", " ">>, <<";">>)

\* AlterTable has rendered a column with decimal places and no length as
\* its name and type alone
C13_Witness ==
    /\ Generated
    /\ sql_type = "AlterTable"
    /\ \E c \in 1..Len(Columns) :
           /\ ~Columns[c].length.some
           /\ Columns[c].decimal_places.some
           /\ HasSubstring(sql, <<"A", "D", "D", " ", "C", "O", "L", "U", "M", "N", " ">> \o Columns[c].name \o <<" ">> \o Columns[c].column_type \o <<",", " ">>)

\* the items of a list printed with `, ` between them
ListItems(text) == IF text = << >> THEN << >> ELSE SplitStr(text, <<",", " ">>)

\* v is a literal: a quoted sample name, a to_date call on a 10-character
\* date, or digits with at most one decimal point
IsLiteral(v) ==
    \/ \E n \in Range(Names) : v = <<"'">> \o n \o <<"'">>
    \/ /\ Len(v) = 34
       /\ SubSeq(v, 1, 9) = <<"t", "o", "_", "d", "a", "t", "e", "(", "'">>
       /\ SubSeq(v, 20, 34) = <<"'", ",", "'", "Y", "Y", "Y", "Y", "-", "M", "M", "-", "D", "D", "'", ")">>
    \/ /\ v # << >>
       /\ \A k \in 1..Len(v) : IsDigit(v[k]) \/ v[k] = "."
       /\ Cardinality({k \in 1..Len(v) : v[k] = "."}) <= 1

\* C14: Insert lists every column name in order and exactly one value per
\* column, so the two lists have the same length; Update has exactly one
\* `column = literal` assignment per column, in column order.
C14_OneValuePerColumn ==
    /\ (Generated /\ sql_type = "Insert") =>
           LET head == <<"I", "N", "S", "E", "R", "T", " ", "I", "N", "T", "O", " ">> \o table.val.name \o <<" ", "(">>
                       \o Join([c \in 1..Len(Columns) |-> Columns[c].name], <<",", " ">>)
                       \o <<")", " ", "V", "A", "L", "U", "E", "S", " ", "(">>
               vals == ListItems(SubSeq(sql, Len(head) + 1, Len(sql) - 2))
           IN  /\ StartsWith(sql, head)
               /\ EndsWith(sql, <<")", ";">>)
               /\ Len(vals) = Len(Columns)
               /\ \A c \in 1..Len(vals) : IsLiteral(vals[c])
    /\ (Generated /\ sql_type = "Update") =>
           LET head  == <<"U", "P", "D", "A", "T", "E", " ">> \o table.val.name \o <<" ", "S", "E", "T", " ">>
               rest  == SubSeq(sql, Len(head) + 1, Len(sql))
               pairs == ListItems(Before(rest, <<" ", "W", "H", "E", "R", "E", " ">>))
           IN  /\ StartsWith(sql, head)
               /\ FindSub(rest, <<" ", "W", "H", "E", "R", "E", " ">>) # 0
               /\ Len(pairs) = Len(Columns)
               /\ \A c \in 1..Len(pairs) :
                      LET lhs == Columns[c].name \o <<" ", "=", " ">>
                      IN  /\ StartsWith(pairs[c], lhs)
                          /\ IsLiteral(SubSeq(pairs[c], Len(lhs) + 1, Len(pairs[c])))

\* Update has assigned a table of two columns or more, one of them a date
C14_Witness ==
    /\ Generated
    /\ sql_type = "Update"
    /\ Len(Columns) >= 2
    /\ \E c \in 1..Len(Columns) :
           /\ Columns[c].column_type \in {<<"d", "a", "t", "e">>, <<"d", "a", "t", "e", "t", "i", "m", "e">>}
           /\ HasSubstring(sql, Columns[c].name \o <<" ", "=", " ", "t", "o", "_", "d", "a", "t", "e", "(", "'">>)

\* the predicate of a Select, Update or Delete: the text between the first
\* ` WHERE ` and the closing `;`
Predicate(stmt) ==
    LET rest == After(stmt, <<" ", "W", "H", "E", "R", "E", " ">>)
    IN  SubSeq(rest, 1, Len(rest) - 1)

\* text drops its first n characters
Drop(text, n) == SubSeq(text, n + 1, Len(text))

\* the part of text before the first sep, all of it when there is none
Upto(text, sep) == IF FindSub(text, sep) = 0 THEN text ELSE Before(text, sep)

\* num is an integer v, 1 <= v < 100, printed without sign or leading zero
IsSmallInteger(num) ==
    /\ Len(num) \in {1, 2}
    /\ \A k \in 1..Len(num) : IsDigit(num[k])
    /\ num[1] # "0"

\* body is `<op> <v>`, an operator of the five and a small integer; the
\* length of the part of text it takes
ComparisonLen(text) ==
    LET op  == Upto(text, <<" ">>)
        num == Upto(Drop(text, Len(op) + 1), <<" ">>)
    IN  IF /\ op \in {<<"=">>, <<">">>, <<"<">>, <<">", "=">>, <<"<", "=">>}
           /\ StartsWith(Drop(text, Len(op)), <<" ">>)
           /\ IsSmallInteger(num)
        THEN Len(op) + 1 + Len(num) ELSE 0

\* text starts with `IN (...)`, the list holding 2 to 10 quoted names of the
\* four; the length of that part, 0 if it does not
MembershipLen(text) ==
    LET close == FindSub(text, <<")">>)
        items == SplitStr(SubSeq(text, 5, close - 1), <<",", " ">>)
    IN  IF /\ StartsWith(text, <<"I", "N", " ", "(">>)
           /\ close # 0
           /\ Len(items) >= 2
           /\ Len(items) <= 10
           /\ \A k \in 1..Len(items) :
                  items[k] \in {<<"'", "A", "l", "i", "c", "e", "'">>, <<"'", "B", "o", "b", "'">>, <<"'", "C", "h", "a", "r", "l", "i", "e", "'">>, <<"'", "D", "a", "v", "i", "d", "'">>}
        THEN close ELSE 0

\* text starts with `BETWEEN to_date('..','YYYY-MM-DD') AND to_date(..)`
RangeLen(text) ==
    IF /\ Len(text) >= 81
       /\ SubSeq(text, 1, 17) = BetweenOpen
       /\ SubSeq(text, 28, 56) = BetweenMid
       /\ SubSeq(text, 67, 81) = <<"'", ",", "'", "Y", "Y", "Y", "Y", "-", "M", "M", "-", "D", "D", "'", ")">>
    THEN 81 ELSE 0

\* text is one clause for each column of a recognized type from c on, in
\* column order, ` AND ` before each but the first
RECURSIVE ClausesFrom(_, _, _)
ClausesFrom(text, c, first) ==
    IF c > Len(Columns) THEN text = << >>
    ELSE IF Columns[c].column_type \notin KnownTypes
    THEN ClausesFrom(text, c + 1, first)
    ELSE LET lead == (IF first THEN << >> ELSE <<" ", "A", "N", "D", " ">>) \o Columns[c].name \o <<" ">>
             body == Drop(text, Len(lead))
             t    == Columns[c].column_type
             n    == IF t \in {<<"n", "u", "m", "b", "e", "r">>, <<"i", "n", "t">>} THEN ComparisonLen(body)
                     ELSE IF t \in {<<"v", "a", "r", "c", "h", "a", "r">>, <<"t", "e", "x", "t">>} THEN MembershipLen(body)
                     ELSE RangeLen(body)
         IN  /\ StartsWith(text, lead)
             /\ n > 0
             /\ ClausesFrom(Drop(body, n), c + 1, FALSE)

\* C15: the predicate has exactly one clause per column of a recognized
\* type, in column order, joined by ` AND `; a number or int column gives
\* `<col> <op> <v>` with op one of = > < >= <= and an integer 1 <= v < 100;
\* a varchar or text column gives `<col> IN (...)` with 2 to 10 quoted
\* names out of Alice, Bob, Charlie, David.
C15_OneClausePerKnownColumn ==
    (Generated /\ sql_type \in {"Select", "Update", "Delete"}) =>
        /\ FindSub(sql, <<" ", "W", "H", "E", "R", "E", " ">>) # 0
        /\ EndsWith(sql, <<";">>)
        /\ ClausesFrom(Predicate(sql), 1, TRUE)

\* Select has filtered on a number or int column and, after it, on a varchar
\* or text column
C15_Witness ==
    /\ Generated
    /\ sql_type = "Select"
    /\ \E c, e \in 1..Len(Columns) :
           /\ c < e
           /\ Columns[c].column_type \in {<<"n", "u", "m", "b", "e", "r">>, <<"i", "n", "t">>}
           /\ Columns[e].column_type \in {<<"v", "a", "r", "c", "h", "a", "r">>, <<"t", "e", "x", "t">>}
           /\ HasSubstring(sql, <<" ", "A", "N", "D", " ">> \o Columns[e].name \o <<" ", "I", "N", " ", "(", "'">>)

\* the table in hand was parsed from a DDL and none of its columns refers
\* to another table
NoReference ==
    /\ ddl # << >>
    /\ \A c \in 1..Len(Columns) :
           ~Columns[c].ref_table.some /\ ~Columns[c].ref_column.some

\* C16: the CREATE TABLE statement generated from a table that
\* init_via_sql built, and that has no foreign-key reference, parses again,
\* and into an equal table.
C16_CreateTableRoundTrip ==
    (pc = "reparsed" /\ NoReference /\ CleanTable) =>
        /\ reparsed.val.ok
        /\ reparsed.val.table = table.val

====
